---- MODULE Spec2Model ----
(***************************************************************************)
(* Model of the content pipeline and the resumable batch orchestration of  *)
(* the CoderDojo guide generator (src/src/cli.py and the stage modules it  *)
(* calls).                                                                 *)
(*                                                                         *)
(* URLs are small integers.  A command-line invocation is a process with a *)
(* position (pc); the disk (the batch state file) outlives it.             *)
(***************************************************************************)
EXTENDS Integers, Sequences, FiniteSets, TLC

\* ---------------------------------------------------------------- bounds
NumUrls == 3
NumIndexes == 2
NumImages == 2
NumLinkUrls == 2
MaxSegments == 3

Urls == 1..NumUrls
Indexes == 1..NumIndexes
\* BatchState.index_url = "" (cli.py:582)
NoIndex == 0
\* the state file does not exist
NoFile == [exists |-> FALSE]

VARIABLES
    stateFile,      \* the JSON file at BatchState.state_path
    state,          \* the BatchState object of the running process
    pc,             \* position of the command-line process
    args,           \* the arguments of the running command
    tutorials,      \* _batch: tutorials extracted from the index page
    pending,        \* _batch: pending_tutorials
    i,              \* _batch: loop index into pending_tutorials (1-based)
    success_count,  \* _batch: success_count
    fail_count,     \* _batch: fail_count
    invoked,        \* URLs handed to the per-item pipeline in this run, in order
    last,           \* outcome of the last pipeline invocation of this process
    saved,          \* URLs whose document this process has written
    exit_code,      \* exit status of the process (NoExit while running)
    resumed,        \* _batch: the branch its resume handling took
    everCompleted,  \* history: URLs ever recorded in the file's completed
    job,            \* one pipeline invocation: mode, page, flags
    pstate,         \* one pipeline invocation: its pipeline state
    qr,             \* one call of process_markdown_links: its locals and files
    mk,             \* one page handed to the MakeCode matchers: their locals
    fn              \* one call of a function stepped through on its own: its locals

batchVars == <<stateFile, state, pc, args, tutorials, pending, i, success_count,
               fail_count, invoked, last, saved, exit_code, resumed,
               everCompleted>>
pipeVars == <<job, pstate>>
notBatch == <<pipeVars, qr, mk, fn>>
notPipe == <<batchVars, qr, mk, fn>>
notQr == <<batchVars, pipeVars, mk, fn>>
notMatch == <<batchVars, pipeVars, qr, fn>>
notFn == <<batchVars, pipeVars, qr, mk>>

\* ------------------------------------------------------------ BatchState
\* BatchState.__init__: empty sets, empty index URL
NewState == [index_url |-> NoIndex, completed |-> {}, failed |-> {}]

\* BatchState.save: the file holds index_url, completed, failed
SaveFile(s) == [exists |-> TRUE, index_url |-> s.index_url,
                completed |-> s.completed, failed |-> s.failed]

\* BatchState.load: TRUE iff the file exists; then the three fields are read
LoadOk(f) == f.exists

LoadState(s, f) ==
    IF f.exists
    THEN [index_url |-> f.index_url, completed |-> f.completed, failed |-> f.failed]
    ELSE s


\* mark_completed that leaves the URL in failed
MarkCompletedKeepsFailed(s, u) == [s EXCEPT !.completed = @ \cup {u}]

\* mark_completed that only takes the URL out of failed
MarkCompletedForgets(s, u) == [s EXCEPT !.failed = @ \ {u}]

\* BatchState.mark_completed: add to completed, discard from failed (then save)
MarkCompleted(s, u) ==
    [s EXCEPT !.completed = @ \cup {u}, !.failed = @ \ {u}]


\* mark_failed that records nothing
MarkFailedDrops(s, u) == s

\* BatchState.mark_failed: add to failed (then save); completed is not touched
MarkFailed(s, u) == [s EXCEPT !.failed = @ \cup {u}]


\* is_completed that never answers yes
IsCompletedNever(s, u) == FALSE

\* BatchState.is_completed
IsCompleted(s, u) == u \in s.completed

\* BatchState.clear: the file is unlinked and the object is emptied
ClearState == NewState

\* -------------------------------------------------------------- pipeline
\* Settings defaults (src/src/core/config.py)
MAKECODE_REPLACE_ENABLED == TRUE
ENHANCE_IMAGES == TRUE
TRANSLATE_ENABLED == TRUE

\* A file of the guide's images directory: <<kind, n, e>> with kind "alt"
\* (named after the alt text n), "image" (named after the image index n) or
\* "makecode" (screenshot of image n); e = 1 for the "_enhanced" variant.
\* NoPath is None for local_path / enhanced_path.
NoPath == <<"none", 0, 0>>
NoContent == [images |-> <<>>, language |-> "none", replacements |-> 0]
NoDoc == [written |-> FALSE, image_map |-> <<>>, language |-> "none",
          qrcodes |-> FALSE]

\* "existing" is the use_existing_images branch taken instead of download and
\* enhance, "rename" is rename_guide_directory between generate and save.
RecoverableStages == {"replace", "download", "enhance", "translate"}
CriticalStages == {"fetch", "extract", "generate", "save"}

\* The kinds of image a page holds: "plain" (no usable alt text), "named"
\* (usable alt text; all named images of the model share it), "code" (paired
\* with a MakeCode link of the page), "bad" (urlparse(src) raises ValueError,
\* e.g. src = "http://[x/a.png"; the adapter keeps an absolute src as it is).
ImageKinds == {"plain", "named", "code", "bad"}

\* ExtractedContent as the adapter returns it (elecfreaks._extract_images):
\* src, alt (and title) only; src is the image's position on the page.
NewImage(k, kind) ==
    [src |-> k, alt |-> IF kind = "named" THEN 1 ELSE 0,
     makecode |-> kind = "code", malformed |-> kind = "bad",
     local_path |-> NoPath, enhanced_path |-> NoPath, replaced |-> FALSE]

NewContent(page) ==
    [images |-> [k \in DOMAIN page |-> NewImage(k, page[k])],
     language |-> "en", replacements |-> 0]

\* downloader.generate_filename: the slug of a usable alt text (alt # 0),
\* otherwise image_<index>
generate_filename(alt, index) ==
    IF alt # 0 THEN <<"alt", alt, 0>> ELSE <<"image", index, 0>>

\* <stem>_enhanced<suffix>
EnhancedName(name) == <<name[1], name[2], 1>>

\* a stage's result: the content it returns (or leaves behind when it raises),
\* whether it raised, and the files on disk afterwards
Ret(c, r, f) == [content |-> c, raised |-> r, files |-> f]

\* makecode_replacer.replace_makecode_screenshots, inside "async with
\* get_browser()": oc.browser = "raise" is the browser or a capture raising
replace_makecode_screenshots(c, files, oc) ==
    LET image_to_link_map == {k \in DOMAIN c.images : c.images[k].makecode}
        captured == IF oc.capture = "ok" THEN image_to_link_map ELSE {}
        shot(k) == <<"makecode", k, 0>>
    IN  IF oc.browser = "raise" THEN Ret(c, TRUE, files)
        ELSE IF image_to_link_map = {} \/ captured = {} THEN Ret(c, FALSE, files)
        ELSE Ret([c EXCEPT
                    !.images = [k \in DOMAIN c.images |->
                        IF k \in captured
                        THEN [c.images[k] EXCEPT !.local_path = shot(k),
                                                 !.replaced = TRUE]
                        ELSE c.images[k]],
                    !.replacements = Cardinality(captured)],
                 FALSE, files \cup {shot(k) : k \in captured})

\* the first image of todo whose src urlparse rejects, or n + 1
FirstMalformed(c, todo) ==
    LET bad == {k \in todo : c.images[k].malformed}
    IN  IF bad = {} THEN Len(c.images) + 1
        ELSE CHOOSE k \in bad : \A j \in bad : k <= j

\* downloader.download_images: the images are visited in order and mutated in
\* place; urlparse raising on a malformed src ends the loop with DownloadError
\* and leaves the images before it as they were set.
download_images(c, files, oc) ==
    LET n == Len(c.images)
        stop == FirstMalformed(c, 1..n)
        got == {k \in 1..(stop - 1) : k \in oc.download}
        path(k) == generate_filename(c.images[k].alt, k)
    IN  Ret([c EXCEPT !.images = [k \in DOMAIN c.images |->
                IF k \in got THEN [c.images[k] EXCEPT !.local_path = path(k)]
                ELSE c.images[k]]],
            stop <= n,
            files \cup {path(k) : k \in got})

\* cli.use_existing_images: replaced images are skipped; generate_filename
\* raises on a malformed src (the caller does not catch it at this stage)
use_existing_images(c, files) ==
    LET n == Len(c.images)
        todo == {k \in 1..n : ~c.images[k].replaced}
        stop == FirstMalformed(c, todo)
        name(k) == generate_filename(c.images[k].alt, k)
        upd(k) ==
            IF k \notin todo \/ k >= stop THEN c.images[k]
            ELSE IF EnhancedName(name(k)) \in files
            THEN [c.images[k] EXCEPT
                    !.enhanced_path = EnhancedName(name(k)),
                    !.local_path = EnhancedName(name(k))]
            ELSE IF name(k) \in files
            THEN [c.images[k] EXCEPT !.local_path = name(k)]
            ELSE c.images[k]
    IN  IF files = {} THEN Ret(c, FALSE, files)
        ELSE Ret([c EXCEPT !.images = [k \in DOMAIN c.images |-> upd(k)]],
                 stop <= n, files)

\* enhancer._process_single_image for image k, then the merge of its result
\* in enhance_all_images: the enhanced file is written, the original removed
\* and enhanced_path set; a missing input or a failed enhancement changes
\* nothing.
ProcessSingleImage(r, k, oc) ==
    LET input == r.content.images[k].local_path
        out == EnhancedName(input)
    IN  IF input \notin r.files \/ k \notin oc.enhance THEN r
        ELSE Ret([r.content EXCEPT !.images[k].enhanced_path = out],
                 FALSE, (r.files \ {input}) \cup {out})

RECURSIVE EnhanceInOrder(_, _, _)
EnhanceInOrder(r, order, oc) ==
    IF order = <<>> THEN r
    ELSE EnhanceInOrder(ProcessSingleImage(r, Head(order), oc), Tail(order), oc)

\* the indices of order that are in keep, in that order
RECURSIVE Restrict(_, _)
Restrict(order, keep) ==
    IF order = <<>> THEN <<>>
    ELSE IF Head(order) \in keep
         THEN <<Head(order)>> \o Restrict(Tail(order), keep)
         ELSE Restrict(Tail(order), keep)

\* enhancer.enhance_all_images: oc.order is the order in which the pool's
\* workers complete; oc.upscayl = "raise" is a failure before any worker
\* result is merged, "missing" is find_upscayl_binary returning None
enhance_all_images(c, files, oc) ==
    LET images_to_enhance ==
            {k \in DOMAIN c.images :
                c.images[k].local_path # NoPath /\ ~c.images[k].replaced}
    IN  IF ~ENHANCE_IMAGES THEN Ret(c, FALSE, files)
        ELSE IF oc.upscayl = "raise" THEN Ret(c, TRUE, files)
        ELSE IF oc.upscayl = "missing" THEN Ret(c, FALSE, files)
        ELSE IF images_to_enhance = {} THEN Ret(c, FALSE, files)
        ELSE EnhanceInOrder(Ret(c, FALSE, files),
                            Restrict(oc.order, images_to_enhance), oc)

\* translator.translate_content: works on a deep copy, returned only when the
\* whole translation succeeded
translate_content(c, files, oc) ==
    IF ~TRANSLATE_ENABLED THEN Ret(c, FALSE, files)
    ELSE IF oc.translate = "raise" THEN Ret(c, TRUE, files)
    ELSE Ret([c EXCEPT !.language = "nl"], FALSE, files)

\* generator.build_image_map: enhanced_path is preferred over local_path
build_image_map(c) ==
    [k \in DOMAIN c.images |->
        IF c.images[k].enhanced_path # NoPath THEN c.images[k].enhanced_path
        ELSE c.images[k].local_path]

\* generator.generate_guide: the document as far as the model sees it
generate_guide(c, add_qrcodes) ==
    [written |-> TRUE, image_map |-> build_image_map(c),
     language |-> c.language, qrcodes |-> add_qrcodes]

\* ------------------------------------------------- the per-item pipeline
\* cli._generate_single (mode "batch") and cli._generate (mode "single"), one
\* step per stage.  A pipeline state: the stage to run next, the content
\* record, the files of the guide's image directory, the log of the stages
\* run (with the content before and after each), the stage whose exception
\* ended the item ("none" if none did), the generated and the saved document.
Flags == [no_enhance : BOOLEAN, no_translate : BOOLEAN, no_qrcode : BOOLEAN,
          no_makecode : BOOLEAN, no_download : BOOLEAN]

StartPipeline(disk) ==
    [next |-> "fetch", content |-> NoContent, files |-> disk, log |-> <<>>,
     failed |-> "none", guide |-> NoDoc, doc |-> NoDoc]

\* the collaborators' outcomes of one pipeline invocation
DefaultOutcome ==
    [fetch |-> "ok", extract |-> "ok", browser |-> "ok", capture |-> "ok",
     download |-> 1..NumImages, upscayl |-> "ok", enhance |-> 1..NumImages,
     order |-> [k \in 1..NumImages |-> k], translate |-> "ok",
     generate |-> "ok", rename |-> "skip", save |-> "ok"]

Entry(stage, r, before) ==
    [stage |-> stage, raised |-> r.raised, before |-> before, after |-> r.content]


\* a stage boundary that lets the item go on after an exception it does not catch
AfterGoesOn(ps, stage, r, caught, next) ==
    [ps EXCEPT !.content = r.content, !.files = r.files,
               !.log = Append(ps.log, Entry(stage, r, ps.content)),
               !.failed = IF r.raised /\ ~caught THEN stage ELSE "none",
               !.next = next]

\* the stage ran: its result is taken over and logged; when it raised and the
\* caller does not catch it at the stage boundary, the item ends there
After(ps, stage, r, caught, next) ==
    [ps EXCEPT !.content = r.content, !.files = r.files,
               !.log = Append(ps.log, Entry(stage, r, ps.content)),
               !.failed = IF r.raised /\ ~caught THEN stage ELSE "none",
               !.next = IF r.raised /\ ~caught THEN "done" ELSE next]

\* cli.py:687-691 / 449-456
ImagesStage(flags) == IF flags.no_download THEN "existing" ELSE "download"

\* cli.py:677-678 / 432-433
StageAfterExtract(flags) ==
    IF ~flags.no_makecode /\ MAKECODE_REPLACE_ENABLED THEN "replace"
    ELSE ImagesStage(flags)

\* a pipeline that goes from the images straight to the save
StageAfterImagesSaves(flags) == "save"

\* cli.py:705-706 / 489-490
StageAfterImages(flags) ==
    IF ~flags.no_translate THEN "translate" ELSE "generate"

\* the guard of the enhance stage: _generate_single (cli.py:699) asks for any
\* image with a local_path, _generate (cli.py:470-474) for one that is not a
\* replaced screenshot
EnhanceGuard(mode, flags, c) ==
    /\ ~flags.no_enhance
    /\ \E k \in DOMAIN c.images :
          /\ c.images[k].local_path # NoPath
          /\ mode = "single" => ~c.images[k].replaced

StageAfterDownload(mode, flags, c) ==
    IF EnhanceGuard(mode, flags, c) THEN "enhance" ELSE StageAfterImages(flags)

DoFetch(ps, oc) ==
    After(ps, "fetch", Ret(ps.content, oc.fetch = "raise", ps.files), FALSE,
          "extract")

DoExtract(ps, page, flags, oc) ==
    After(ps, "extract",
          Ret(IF oc.extract = "raise" THEN ps.content ELSE NewContent(page),
              oc.extract = "raise", ps.files),
          FALSE, StageAfterExtract(flags))

DoReplace(ps, flags, oc) ==
    After(ps, "replace", replace_makecode_screenshots(ps.content, ps.files, oc),
          TRUE, ImagesStage(flags))

DoDownload(mode, ps, flags, oc) ==
    LET r == download_images(ps.content, ps.files, oc)
    IN  After(ps, "download", r, TRUE, StageAfterDownload(mode, flags, r.content))

DoExisting(ps, flags) ==
    After(ps, "existing", use_existing_images(ps.content, ps.files), FALSE,
          StageAfterImages(flags))

DoEnhance(ps, flags, oc) ==
    After(ps, "enhance", enhance_all_images(ps.content, ps.files, oc), TRUE,
          StageAfterImages(flags))

DoTranslate(ps, oc) ==
    After(ps, "translate", translate_content(ps.content, ps.files, oc), TRUE,
          "generate")

\* generate_guide, then the choice of cli.py:716-717: oc.rename = "skip" is a
\* URL without a case number (or a page without a title)
DoGenerate(ps, flags, oc) ==
    LET raised == oc.generate = "raise"
        q == After(ps, "generate", Ret(ps.content, raised, ps.files), FALSE,
                   IF oc.rename = "skip" THEN "save" ELSE "rename")
    IN  [q EXCEPT !.guide = IF raised THEN NoDoc
                            ELSE generate_guide(ps.content, ~flags.no_qrcode)]

DoRename(ps, oc) ==
    After(ps, "rename", Ret(ps.content, oc.rename = "raise", ps.files), FALSE,
          "save")

DoSave(ps, oc) ==
    LET raised == oc.save = "raise"
        q == After(ps, "save", Ret(ps.content, raised, ps.files), FALSE, "done")
    IN  [q EXCEPT !.doc = IF raised THEN NoDoc ELSE ps.guide]

\* the stage at ps.next
StageStep(mode, ps, page, flags, oc) ==
    CASE ps.next = "fetch" -> DoFetch(ps, oc)
      [] ps.next = "extract" -> DoExtract(ps, page, flags, oc)
      [] ps.next = "replace" -> DoReplace(ps, flags, oc)
      [] ps.next = "download" -> DoDownload(mode, ps, flags, oc)
      [] ps.next = "existing" -> DoExisting(ps, flags)
      [] ps.next = "enhance" -> DoEnhance(ps, flags, oc)
      [] ps.next = "translate" -> DoTranslate(ps, oc)
      [] ps.next = "generate" -> DoGenerate(ps, flags, oc)
      [] ps.next = "rename" -> DoRename(ps, oc)
      [] ps.next = "save" -> DoSave(ps, oc)
      [] OTHER -> ps

RECURSIVE RunStages(_, _, _, _, _)
RunStages(mode, ps, page, flags, oc) ==
    IF ps.next = "done" THEN ps
    ELSE RunStages(mode, StageStep(mode, ps, page, flags, oc), page, flags, oc)

\* _generate_single: (success, error) with success = no exception reached the
\* outer "except Exception"
GenerateSingle(page, flags, oc, disk) ==
    RunStages("batch", StartPipeline(disk), page, flags, oc)

\* _generate: every failure that ends the item ends the process, SystemExit(1)
\* or an uncaught exception
Generate(page, flags, oc, disk) ==
    RunStages("single", StartPipeline(disk), page, flags, oc)

Success(ps) == ps.next = "done" /\ ps.failed = "none"

StagesRun(ps) == [k \in DOMAIN ps.log |-> ps.log[k].stage]

\* ------------------------------------------------------ the command line
NoArgs == [cmd |-> "none", index |-> NoIndex, resume |-> FALSE,
           list_only |-> FALSE, flags |-> [no_enhance |-> FALSE,
           no_translate |-> FALSE, no_qrcode |-> FALSE, no_makecode |-> FALSE,
           no_download |-> FALSE]]
NoLast == [url |-> 0, success |-> FALSE, failed |-> "none", stages |-> <<>>,
           written |-> FALSE]
\* the process has not exited
NoExit == -1

\* the flag sets the batch and generate commands are run with here
AllFlags(b) == [no_enhance |-> b, no_translate |-> b, no_qrcode |-> b,
                no_makecode |-> b, no_download |-> b]
CliFlagSets == {AllFlags(FALSE), AllFlags(TRUE)}

\* the page behind every tutorial URL: a good image, a MakeCode screenshot
PageOf(u) == <<"plain", "code">>

\* the collaborators' outcomes a tutorial is processed with here: one critical
\* stage (or none) raises, and the recoverable stages all succeed or all raise
ItemOutcome(crit, rec) ==
    [DefaultOutcome EXCEPT
        !.fetch = IF crit = "fetch" THEN "raise" ELSE "ok",
        !.extract = IF crit = "extract" THEN "raise" ELSE "ok",
        !.generate = IF crit = "generate" THEN "raise" ELSE "ok",
        !.rename = IF crit = "rename" THEN "raise" ELSE "ok",
        !.save = IF crit = "save" THEN "raise" ELSE "ok",
        !.browser = rec, !.upscayl = rec, !.translate = rec]

ItemOutcomes ==
    {ItemOutcome(crit, rec) :
        crit \in {"none", "fetch", "extract", "generate", "rename", "save"},
        rec \in {"ok", "raise"}}

\* what the caller and the disk see of a finished pipeline: the (success,
\* error) result, the stages run with whether each raised, the document
Outcome(u, ps) ==
    [url |-> u, success |-> Success(ps), failed |-> ps.failed,
     stages |-> [k \in DOMAIN ps.log |-> <<ps.log[k].stage, ps.log[k].raised>>],
     written |-> ps.doc.written]

\* the lists of tutorial URLs an index page can yield: the page lists the
\* tutorials in a fixed order (here by number) and holds any of them, each
\* once (elecfreaks.extract_tutorial_links skips an href it has seen)
RECURSIVE Ascending(_)
Ascending(S) ==
    IF S = {} THEN <<>>
    ELSE LET u == CHOOSE x \in S : \A y \in S : x <= y
         IN  <<u>> \o Ascending(S \ {u})

TutorialLists == {Ascending(S) : S \in SUBSET Urls}

Range(q) == {q[k] : k \in DOMAIN q}


\* the resume handling without the clear() on an index URL mismatch
ResumeStateKeeps(file, index, resume) ==
    LET loaded == resume /\ LoadOk(file)
        s == IF loaded THEN LoadState(NewState, file) ELSE NewState
        mismatch == loaded /\ s.index_url # NoIndex /\ s.index_url # index
    IN  [state |-> s, file |-> file,
         branch |-> IF ~resume THEN "fresh"
                    ELSE IF ~loaded THEN "none"
                    ELSE IF mismatch THEN "discarded" ELSE "resumed"]

\* _batch, "Handle resume" (cli.py:776-797): a fresh BatchState; with resume
\* the file is loaded, and cleared when it names another index URL.  branch is
\* the message printed: "fresh" (no resume asked), "none" (no previous state
\* found), "resumed", or "discarded" (index URL mismatch, starting fresh).
ResumeState(file, index, resume) ==
    LET loaded == resume /\ LoadOk(file)
        s == IF loaded THEN LoadState(NewState, file) ELSE NewState
        mismatch == loaded /\ s.index_url # NoIndex /\ s.index_url # index
    IN  [state |-> IF mismatch THEN ClearState ELSE s,
         file |-> IF mismatch THEN NoFile ELSE file,
         branch |-> IF ~resume THEN "fresh"
                    ELSE IF ~loaded THEN "none"
                    ELSE IF mismatch THEN "discarded" ELSE "resumed"]


\* the pending list without the filter on completed URLs
PendingAll(tuts, s) == tuts

\* a pending list that filters on the failed set instead of the completed one
PendingNotFailed(tuts, s) ==
    SelectSeq(tuts, LAMBDA u : u \notin s.failed)

\* _batch, cli.py:841
PendingTutorials(tuts, s) ==
    SelectSeq(tuts, LAMBDA u : ~IsCompleted(s, u))


\* a clean-up that removes the state file whatever the run counted
CleanUpAlways(fails) == TRUE

\* _batch, cli.py:927: the state file is removed when this run counted no failure
CleanUp(fails) == fails = 0

runVars == <<tutorials, pending, i, success_count, fail_count, invoked, last,
             saved, resumed>>

ResetRun ==
    /\ tutorials' = <<>>
    /\ pending' = <<>>
    /\ i' = 0
    /\ success_count' = 0
    /\ fail_count' = 0
    /\ invoked' = <<>>
    /\ last' = NoLast
    /\ saved' = {}

InitBatch ==
    /\ stateFile = NoFile
    /\ state = NewState
    /\ pc = "idle"
    /\ args = NoArgs
    /\ tutorials = <<>>
    /\ pending = <<>>
    /\ i = 0
    /\ success_count = 0
    /\ fail_count = 0
    /\ invoked = <<>>
    /\ last = NoLast
    /\ saved = {}
    /\ resumed = "fresh"
    /\ exit_code = NoExit
    /\ everCompleted = {}

\* "coderdojo batch --index ... [--resume] [--list-only]": _batch up to the
\* fetch of the index page
StartBatch(index, resume, list_only, flags) ==
    /\ UNCHANGED notBatch
    /\ pc = "idle"
    /\ args' = [cmd |-> "batch", index |-> index, resume |-> resume,
                list_only |-> list_only, flags |-> flags]
    /\ LET r == ResumeState(stateFile, index, resume)
       IN  /\ state' = r.state
           /\ stateFile' = r.file
           /\ resumed' = r.branch
    /\ ResetRun
    /\ exit_code' = NoExit
    /\ pc' = "fetch_index"
    /\ UNCHANGED everCompleted

\* _batch, cli.py:807-812: the index page cannot be fetched
FetchIndexFails ==
    /\ UNCHANGED notBatch
    /\ pc = "fetch_index"
    /\ pc' = "exited"
    /\ exit_code' = 1
    /\ UNCHANGED <<stateFile, state, args, runVars, everCompleted>>

\* _batch, cli.py:815-834: no tutorials, or list-only: nothing is processed
FetchIndexLists(lists) ==
    /\ UNCHANGED notBatch
    /\ pc = "fetch_index"
    /\ \E tuts \in lists \cup {<<>>} :
          /\ tuts = <<>> \/ args.list_only
          /\ tutorials' = tuts
    /\ pc' = "exited"
    /\ exit_code' = 0
    /\ UNCHANGED <<stateFile, state, args, pending, i, success_count,
                   fail_count, invoked, last, saved, resumed, everCompleted>>

\* _batch, cli.py:836-850: the index URL is stored, the state saved and the
\* completed tutorials are filtered out
FetchIndex(lists) ==
    /\ UNCHANGED notBatch
    /\ pc = "fetch_index"
    /\ ~args.list_only
    /\ \E tuts \in lists \ {<<>>} :
          LET s == [state EXCEPT !.index_url = args.index]
              todo == PendingTutorials(tuts, s)
          IN  /\ tutorials' = tuts
              /\ state' = s
              /\ stateFile' = SaveFile(s)
              /\ everCompleted' = everCompleted \cup s.completed
              /\ pending' = todo
              /\ IF todo = <<>>
                 THEN pc' = "exited" /\ exit_code' = 0 /\ i' = 0
                 ELSE pc' = "item" /\ exit_code' = NoExit /\ i' = 1
    /\ UNCHANGED <<args, success_count, fail_count, invoked, last, saved,
                   resumed>>

\* _batch, cli.py:876-886: the pipeline runs for pending_tutorials[i]
ProcessItem ==
    /\ UNCHANGED notBatch
    /\ pc = "item"
    /\ \E oc \in ItemOutcomes :
          LET u == pending[i]
              ps == GenerateSingle(PageOf(u), args.flags, oc, {})
          IN  /\ last' = Outcome(u, ps)
              /\ invoked' = Append(invoked, u)
              /\ saved' = IF ps.doc.written THEN saved \cup {u} ELSE saved
    /\ pc' = "mark"
    /\ UNCHANGED <<stateFile, state, args, tutorials, pending, i, resumed,
                   success_count, fail_count, exit_code, everCompleted>>

\* _batch, cli.py:888-897: mark_completed or mark_failed, each with its save
MarkItem ==
    /\ UNCHANGED notBatch
    /\ pc = "mark"
    /\ LET s == IF last.success THEN MarkCompleted(state, last.url)
                ELSE MarkFailed(state, last.url)
       IN  /\ state' = s
           /\ stateFile' = SaveFile(s)
           /\ everCompleted' = everCompleted \cup s.completed
    /\ success_count' = IF last.success THEN success_count + 1 ELSE success_count
    /\ fail_count' = IF last.success THEN fail_count ELSE fail_count + 1
    /\ last' = NoLast
    /\ pc' = IF i < Len(pending) THEN "sleep" ELSE "summary"
    /\ UNCHANGED <<args, tutorials, pending, i, invoked, saved, resumed,
                   exit_code>>

\* _batch, cli.py:899-901: the rate-limit delay, then the next tutorial
Sleep ==
    /\ UNCHANGED notBatch
    /\ pc = "sleep"
    /\ i' = i + 1
    /\ pc' = "item"
    /\ UNCHANGED <<stateFile, state, args, tutorials, pending, success_count,
                   fail_count, invoked, last, saved, resumed, exit_code,
                   everCompleted>>

\* _batch, cli.py:903-928: the summary and the clean-up of the state file
Finish ==
    /\ UNCHANGED notBatch
    /\ pc = "summary"
    /\ IF CleanUp(fail_count)
       THEN state' = ClearState /\ stateFile' = NoFile
       ELSE UNCHANGED <<state, stateFile>>
    /\ pc' = "exited"
    /\ exit_code' = 0
    /\ UNCHANGED <<args, runVars, everCompleted>>

\* "coderdojo generate --url ...": _generate from start to exit
GenerateCmd ==
    /\ UNCHANGED notBatch
    /\ pc = "idle"
    /\ \E u \in Urls, flags \in CliFlagSets, oc \in ItemOutcomes :
          LET ps == Generate(PageOf(u), flags, oc, {})
          IN  /\ args' = [NoArgs EXCEPT !.cmd = "generate", !.flags = flags]
              /\ last' = Outcome(u, ps)
              /\ invoked' = <<u>>
              /\ saved' = IF ps.doc.written THEN {u} ELSE {}
              /\ exit_code' = IF Success(ps) THEN 0 ELSE 1
    /\ pc' = "exited"
    /\ UNCHANGED <<stateFile, state, tutorials, pending, i, success_count,
                   fail_count, resumed, everCompleted>>

\* the process is gone: its memory with it, the disk stays
ExitProcess ==
    /\ UNCHANGED notBatch
    /\ pc = "exited"
    /\ pc' = "idle"
    /\ state' = NewState
    /\ args' = NoArgs
    /\ ResetRun
    /\ resumed' = "fresh"
    /\ exit_code' = NoExit
    /\ UNCHANGED <<stateFile, everCompleted>>

\* the batch process is interrupted (killed) between two of its steps
Crash ==
    /\ UNCHANGED notBatch
    /\ pc \in {"fetch_index", "item", "mark", "sleep", "summary"}
    /\ pc' = "idle"
    /\ state' = NewState
    /\ args' = NoArgs
    /\ ResetRun
    /\ resumed' = "fresh"
    /\ exit_code' = NoExit
    /\ UNCHANGED <<stateFile, everCompleted>>

\* process_markdown_links is not stepped through on its own
QrIdle ==
    [pc |-> "idle", source |-> <<>>, markdown |-> <<>>, all_matches |-> <<>>,
     idx |-> 0, offset |-> 0, cache |-> {}, files |-> {}, qr_codes |-> <<>>]

InitQrIdle == qr = QrIdle

\* the MakeCode matchers are not stepped through on their own
MkIdle ==
    [pc |-> "idle", blocks |-> <<>>, code_heading |-> FALSE,
     src_to_makecode |-> <<>>, image_to_link_map |-> <<>>, matches |-> <<>>]

InitMatchIdle == mk = MkIdle

\* no function is stepped through on its own
FnIdle == [pc |-> "idle"]

InitFnIdle == fn = FnIdle

\* no pipeline is stepped through on its own
NoRun == [mode |-> "none", page |-> <<>>, flags |-> AllFlags(FALSE)]

InitPipeIdle ==
    /\ job = NoRun
    /\ pstate = StartPipeline({})

Init == InitBatch /\ InitPipeIdle /\ InitQrIdle /\ InitMatchIdle /\ InitFnIdle

Next ==
    \/ \E index \in Indexes, resume \in BOOLEAN, list_only \in BOOLEAN,
          flags \in CliFlagSets : StartBatch(index, resume, list_only, flags)
    \/ FetchIndexFails
    \/ FetchIndexLists(TutorialLists)
    \/ FetchIndex(TutorialLists)
    \/ ProcessItem
    \/ MarkItem
    \/ Sleep
    \/ Finish
    \/ GenerateCmd
    \/ ExitProcess
    \/ Crash

vars == <<batchVars, pipeVars, qr, mk, fn>>

Spec == Init /\ [][Next]_vars

\* The same program run again and again on one index URL whose page does not
\* change: every fetch of the index yields the same tutorials.
UnchangedIndex == 1
UnchangedPage == {Ascending(Urls)}

NextSame ==
    \/ \E resume \in BOOLEAN, list_only \in BOOLEAN, flags \in CliFlagSets :
          StartBatch(UnchangedIndex, resume, list_only, flags)
    \/ FetchIndexFails
    \/ FetchIndexLists(UnchangedPage)
    \/ FetchIndex(UnchangedPage)
    \/ ProcessItem
    \/ MarkItem
    \/ Sleep
    \/ Finish
    \/ ExitProcess
    \/ Crash

SpecSame == Init /\ [][NextSame]_vars

\* BatchState used on its own: any calls in any order (tests/test_cli.py)
ApiMarkCompleted(u) ==
    /\ UNCHANGED notBatch
    /\ state' = MarkCompleted(state, u)
    /\ stateFile' = SaveFile(state')
    /\ UNCHANGED <<pc, args, runVars, exit_code, everCompleted>>

ApiMarkFailed(u) ==
    /\ UNCHANGED notBatch
    /\ state' = MarkFailed(state, u)
    /\ stateFile' = SaveFile(state')
    /\ UNCHANGED <<pc, args, runVars, exit_code, everCompleted>>

ApiSetIndex(index) ==
    /\ UNCHANGED notBatch
    /\ state' = [state EXCEPT !.index_url = index]
    /\ UNCHANGED <<stateFile, pc, args, runVars, exit_code, everCompleted>>

ApiSave ==
    /\ UNCHANGED notBatch
    /\ stateFile' = SaveFile(state)
    /\ UNCHANGED <<state, pc, args, runVars, exit_code, everCompleted>>

ApiLoad ==
    /\ UNCHANGED notBatch
    /\ LoadOk(stateFile)
    /\ state' = LoadState(state, stateFile)
    /\ UNCHANGED <<stateFile, pc, args, runVars, exit_code, everCompleted>>

ApiClear ==
    /\ UNCHANGED notBatch
    /\ state' = ClearState
    /\ stateFile' = NoFile
    /\ UNCHANGED <<pc, args, runVars, exit_code, everCompleted>>

NextState ==
    \/ \E u \in Urls : ApiMarkCompleted(u)
    \/ \E u \in Urls : ApiMarkFailed(u)
    \/ \E index \in Indexes : ApiSetIndex(index)
    \/ ApiSave
    \/ ApiLoad
    \/ ApiClear

SpecState == Init /\ [][NextState]_vars



\* ------------------------------------- one pipeline invocation, stage by stage
\* the pages a tutorial URL can lead to: NumImages images of any kinds
Pages == [1..NumImages -> ImageKinds]

\* what the guide's image directory holds before the invocation
Disks == {{}, {<<"image", 1, 0>>}, {<<"image", 1, 0>>, <<"image", 1, 1>>}}

Perms(S) == {q \in [1..Cardinality(S) -> S] : \A j, k \in DOMAIN q : q[j] = q[k] => j = k}

\* the outcomes the collaborators of one stage can have
Outcomes(stage) ==
    CASE stage = "fetch" ->
            {[DefaultOutcome EXCEPT !.fetch = x] : x \in {"ok", "raise"}}
      [] stage = "extract" ->
            {[DefaultOutcome EXCEPT !.extract = x] : x \in {"ok", "raise"}}
      [] stage = "replace" ->
            {[DefaultOutcome EXCEPT !.browser = x, !.capture = y] :
                x \in {"ok", "raise"}, y \in {"ok", "fail"}}
      [] stage = "download" ->
            {[DefaultOutcome EXCEPT !.download = x] : x \in SUBSET (1..NumImages)}
      [] stage = "enhance" ->
            {[DefaultOutcome EXCEPT !.upscayl = x, !.enhance = y, !.order = z] :
                x \in {"ok", "raise", "missing"}, y \in SUBSET (1..NumImages),
                z \in Perms(1..NumImages)}
      [] stage = "translate" ->
            {[DefaultOutcome EXCEPT !.translate = x] : x \in {"ok", "raise"}}
      [] stage = "generate" ->
            {[DefaultOutcome EXCEPT !.generate = x, !.rename = y] :
                x \in {"ok", "raise"}, y \in {"skip", "ok", "raise"}}
      [] stage = "rename" ->
            {[DefaultOutcome EXCEPT !.rename = x] : x \in {"ok", "raise"}}
      [] stage = "save" ->
            {[DefaultOutcome EXCEPT !.save = x] : x \in {"ok", "raise"}}
      [] OTHER -> {DefaultOutcome}

InitPipe ==
    /\ InitBatch
    /\ InitFnIdle
    /\ qr = QrIdle
    /\ InitMatchIdle
    /\ job \in [mode : {"batch", "single"}, page : Pages, flags : Flags]
    /\ pstate \in {StartPipeline(disk) : disk \in Disks}

PFetch ==
    /\ pstate.next = "fetch"
    /\ \E oc \in Outcomes("fetch") : pstate' = DoFetch(pstate, oc)
    /\ UNCHANGED <<job, notPipe>>

PExtract ==
    /\ pstate.next = "extract"
    /\ \E oc \in Outcomes("extract") : pstate' = DoExtract(pstate, job.page, job.flags, oc)
    /\ UNCHANGED <<job, notPipe>>

PReplace ==
    /\ pstate.next = "replace"
    /\ \E oc \in Outcomes("replace") : pstate' = DoReplace(pstate, job.flags, oc)
    /\ UNCHANGED <<job, notPipe>>

PDownload ==
    /\ pstate.next = "download"
    /\ \E oc \in Outcomes("download") : pstate' = DoDownload(job.mode, pstate, job.flags, oc)
    /\ UNCHANGED <<job, notPipe>>

PExisting ==
    /\ pstate.next = "existing"
    /\ pstate' = DoExisting(pstate, job.flags)
    /\ UNCHANGED <<job, notPipe>>

PEnhance ==
    /\ pstate.next = "enhance"
    /\ \E oc \in Outcomes("enhance") : pstate' = DoEnhance(pstate, job.flags, oc)
    /\ UNCHANGED <<job, notPipe>>

PTranslate ==
    /\ pstate.next = "translate"
    /\ \E oc \in Outcomes("translate") : pstate' = DoTranslate(pstate, oc)
    /\ UNCHANGED <<job, notPipe>>

PGenerate ==
    /\ pstate.next = "generate"
    /\ \E oc \in Outcomes("generate") : pstate' = DoGenerate(pstate, job.flags, oc)
    /\ UNCHANGED <<job, notPipe>>

PRename ==
    /\ pstate.next = "rename"
    /\ \E oc \in Outcomes("rename") : pstate' = DoRename(pstate, oc)
    /\ UNCHANGED <<job, notPipe>>

PSave ==
    /\ pstate.next = "save"
    /\ \E oc \in Outcomes("save") : pstate' = DoSave(pstate, oc)
    /\ UNCHANGED <<job, notPipe>>

NextPipe ==
    \/ PFetch
    \/ PExtract
    \/ PReplace
    \/ PDownload
    \/ PExisting
    \/ PEnhance
    \/ PTranslate
    \/ PGenerate
    \/ PRename
    \/ PSave

SpecPipe == InitPipe /\ [][NextPipe]_vars


\* --------------------------------------------------- QR codes in markdown
\* Markdown is a sequence of characters <<c, n, e>>: the punctuation of
\* links, "x" (the character "/"), "http" n (the characters of the URL
\* http://host-n taken as one), and the <img> tag of an injected reference.
Ch(c) == <<c, 0, 0>>
UrlTok(n) == <<"http", n, 0>>

Min(S) == CHOOSE x \in S : \A y \in S : x <= y

\* the first position from s on that holds c, Len(t) + 1 if none does
RunEnd(t, s, c) ==
    LET S == {p \in s..Len(t) : t[p] = c}
    IN  IF S = {} THEN Len(t) + 1 ELSE Min(S)

NoMatch == [found |-> FALSE, type |-> "none", start |-> 0, end |-> 0, url |-> <<>>]

\* link_pattern \[([^\]]+)\]\(([^)]+)\) tried at position s: start is the
\* position of the first character, end that of the last (match.end())
StandardAt(t, s) ==
    LET e1 == RunEnd(t, s + 1, Ch("]"))
        e2 == RunEnd(t, e1 + 2, Ch(")"))
    IN  IF /\ t[s] = Ch("[")
           /\ e1 > s + 1 /\ e1 + 1 <= Len(t)
           /\ t[e1 + 1] = Ch("(")
           /\ e2 > e1 + 2 /\ e2 <= Len(t)
        THEN [found |-> TRUE, type |-> "standard", start |-> s, end |-> e2,
              url |-> SubSeq(t, e1 + 2, e2 - 1)]
        ELSE NoMatch

\* autolink_pattern <(https?://[^>]+)> tried at position s
AutolinkAt(t, s) ==
    LET e == RunEnd(t, s + 2, Ch(">"))
    IN  IF /\ t[s] = Ch("<")
           /\ s + 1 <= Len(t)
           /\ t[s + 1][1] = "http"
           /\ e <= Len(t)
        THEN [found |-> TRUE, type |-> "autolink", start |-> s, end |-> e,
              url |-> SubSeq(t, s + 1, e - 1)]
        ELSE NoMatch

\* pattern.finditer(markdown): the leftmost matches, none overlapping another
RECURSIVE FindIter(_, _, _)
FindIter(type, t, s) ==
    IF s > Len(t) THEN <<>>
    ELSE LET m == IF type = "standard" THEN StandardAt(t, s) ELSE AutolinkAt(t, s)
         IN  IF m.found THEN <<m>> \o FindIter(type, t, m.end + 1)
             ELSE FindIter(type, t, s + 1)

\* all_matches.sort(key = start)
SortByStart(ms) ==
    [k \in 1..Len(ms) |->
        CHOOSE m \in Range(ms) :
            Cardinality({x \in Range(ms) : x.start < m.start}) = k - 1]

AllMatches(t) == SortByStart(FindIter("standard", t, 1) \o FindIter("autolink", t, 1))

\* urlparse(url) has a scheme and a netloc
UrlValid(url) == url # <<>> /\ url[1][1] = "http"

\* urlparse(url) raises ValueError("Invalid IPv6 URL"): a bracket in the host
\* that is not closed, as in http://[x/p
UrlMalformed(url) == url # <<>> /\ url[1][1] = "httpbad"

\* hashlib.md5(url).hexdigest()[:8], as a number that tells the URLs apart
CharCode(c) ==
    CASE c[1] = "http" -> 8 + c[2]
      [] c[1] = "[" -> 1 [] c[1] = "]" -> 2 [] c[1] = "(" -> 3
      [] c[1] = ")" -> 4 [] c[1] = "<" -> 5 [] c[1] = ">" -> 6
      [] c[1] = "x" -> 7 [] OTHER -> 8

RECURSIVE UrlHash(_)
UrlHash(url) ==
    IF url = <<>> THEN 0 ELSE CharCode(Head(url)) + 32 * UrlHash(Tail(url))

\* QRCodeGenerator.get_qr_filename: qr_<index>_<hash>.png
get_qr_filename(url, index) == <<index, UrlHash(url)>>

\* generate_qr_code returned None
NoQr == <<0, 0>>

\* generate_qr_code raised (the ValueError of urlparse)
QrRaised == <<0, 1>>

\* QRCodeGenerator.generate_qr_code on a generator g (its cache, the files
\* of its directory): the path returned and the generator afterwards
generate_qr_code(g, url, filename) ==
    LET hit == {e \in g.cache : e.url = url}
    IN  IF UrlMalformed(url)
        THEN [path |-> QrRaised, cache |-> g.cache, files |-> g.files]
        ELSE IF ~UrlValid(url)
        THEN [path |-> NoQr, cache |-> g.cache, files |-> g.files]
        ELSE IF hit # {}
        THEN [path |-> (CHOOSE e \in hit : TRUE).filename, cache |-> g.cache,
              files |-> g.files]
        ELSE [path |-> filename,
              cache |-> g.cache \cup {[url |-> url, filename |-> filename]},
              files |-> g.files \cup {filename}]

\* qr_markdown: a space and the <img> tag naming qrcodes/<filename>
qr_markdown(filename) == <<Ch(" "), <<"img", filename[1], filename[2]>>>>

\* insert_pos = match.end() + offset
InsertPos(match, offset) == match.end + offset

\* markdown[:insert_pos] + qr_markdown + markdown[insert_pos:]
Insert(markdown, insert_pos, text) ==
    LET p == IF insert_pos > Len(markdown) THEN Len(markdown) ELSE insert_pos
    IN  SubSeq(markdown, 1, p) \o text \o SubSeq(markdown, p + 1, Len(markdown))

\* the markdown texts: up to MaxSegments pieces, each a character of text, a
\* link [x](url), a link whose URL has no scheme, a link whose URL has a host
\* that urlparse rejects, an autolink <url>, a link whose text is an autolink,
\* or a link whose destination is in angle brackets
Segment(kind, n) ==
    CASE kind = "text" -> <<Ch("x")>>
      [] kind = "link" ->
            <<Ch("["), Ch("x"), Ch("]"), Ch("("), UrlTok(n), Ch(")")>>
      [] kind = "badlink" ->
            <<Ch("["), Ch("x"), Ch("]"), Ch("("), Ch("x"), Ch(")")>>
      [] kind = "broken" ->
            <<Ch("["), Ch("x"), Ch("]"), Ch("("), <<"httpbad", 0, 0>>, Ch(")")>>
      [] kind = "auto" -> <<Ch("<"), UrlTok(n), Ch(">")>>
      [] kind = "nested" ->
            <<Ch("["), Ch("<"), UrlTok(n), Ch(">"), Ch("]"), Ch("("), UrlTok(n),
              Ch(")")>>
      [] kind = "angled" ->
            <<Ch("["), Ch("x"), Ch("]"), Ch("("), Ch("<"), UrlTok(n), Ch(">"),
              Ch(")")>>

Segments ==
    {Segment("text", 0), Segment("badlink", 0), Segment("broken", 0)} \cup
    {Segment(kind, n) : kind \in {"link", "auto", "nested", "angled"},
                        n \in 1..NumLinkUrls}

RECURSIVE Flatten(_)
Flatten(q) == IF q = <<>> THEN <<>> ELSE Head(q) \o Flatten(Tail(q))

Markdowns ==
    UNION {{Flatten(q) : q \in [1..n -> Segments]} : n \in 1..MaxSegments}

InitQr ==
    /\ InitBatch
    /\ InitFnIdle
    /\ InitPipeIdle
    /\ InitMatchIdle
    /\ qr \in {[QrIdle EXCEPT !.pc = "start", !.source = t, !.markdown = t] :
                 t \in Markdowns}

\* process_markdown_links up to its loop: the matches of both patterns
QrFind ==
    /\ qr.pc = "start"
    /\ LET ms == AllMatches(qr.markdown)
       IN  qr' = [qr EXCEPT !.all_matches = ms,
                            !.pc = IF ms = <<>> THEN "done" ELSE "loop"]
    /\ UNCHANGED notQr

\* one turn of the loop over all_matches
QrLink ==
    /\ qr.pc = "loop"
    /\ qr.idx < Len(qr.all_matches)
    /\ LET idx == qr.idx + 1
           match == qr.all_matches[idx]
           filename == get_qr_filename(match.url, idx)
           r == generate_qr_code(qr, match.url, filename)
           text == qr_markdown(filename)
       IN  IF r.path = QrRaised
           THEN qr' = [qr EXCEPT !.idx = idx, !.pc = "raised"]
           ELSE IF r.path = NoQr
           THEN qr' = [qr EXCEPT !.idx = idx]
           ELSE qr' = [qr EXCEPT
                    !.idx = idx,
                    !.cache = r.cache,
                    !.files = r.files,
                    !.qr_codes = Append(@, [url |-> match.url,
                                            filename |-> filename,
                                            path |-> r.path, index |-> idx]),
                    !.markdown = Insert(@, InsertPos(match, qr.offset), text),
                    !.offset = @ + Len(text)]
    /\ UNCHANGED notQr

\* the loop is over: (markdown, qr_codes) is returned
QrReturn ==
    /\ qr.pc = "loop"
    /\ qr.idx = Len(qr.all_matches)
    /\ qr' = [qr EXCEPT !.pc = "done"]
    /\ UNCHANGED notQr

NextQr ==
    \/ QrFind
    \/ QrLink
    \/ QrReturn

SpecQr == InitQr /\ [][NextQr]_vars

\* process_markdown_links called again and again on one output directory
\* (generate_guide, generator.py:391-393, on every run for the same guide):
\* the files of the directory stay, the QRCodeGenerator of a call and its
\* cache are new (qrcode_processor.py:168).  The texts here hold autolinks
\* and plain text only.
LinkTexts ==
    LET segs == {Segment("text", 0)} \cup
                {Segment("auto", n) : n \in 1..NumLinkUrls}
    IN  UNION {{Flatten(q) : q \in [1..n -> segs]} : n \in 1..MaxSegments}

StartDocument(t, files) ==
    [QrIdle EXCEPT !.pc = "start", !.source = t, !.markdown = t,
                   !.files = files]

InitQrRuns ==
    /\ InitBatch
    /\ InitFnIdle
    /\ InitPipeIdle
    /\ InitMatchIdle
    /\ qr \in {StartDocument(t, {}) : t \in LinkTexts}

\* the next call, for a text of the same guide
QrNextDocument ==
    /\ qr.pc = "done"
    /\ \E t \in LinkTexts : qr' = StartDocument(t, qr.files)
    /\ UNCHANGED notQr

NextQrRuns ==
    \/ QrFind
    \/ QrLink
    \/ QrReturn
    \/ QrNextDocument

SpecQrRuns == InitQrRuns /\ [][NextQrRuns]_vars

\* ------------------------------------------------------ MakeCode matchers
\* A page as the matchers see it: the content blocks of its sections in
\* document order, each <<kind, n, e>>: <<"text", 0, 0>>, <<"img", src, kw>>
\* (an image; kw = 1 when its alt, title or src holds a code keyword) and
\* <<"link", l, 0>> (a block with a link to the MakeCode project l).  The page
\* is one section, whose heading is code-related or not (code_heading).
MaxBlocks == 5

\* the blocks the adjacency heuristic walks back from a link
LOOKBACK == 3

Srcs == {1, 2}
MakeCodeLinks == {1, 2}

Blocks ==
    {<<"text", 0, 0>>} \cup {<<"img", s, kw>> : s \in Srcs, kw \in {0, 1}}
        \cup {<<"link", l, 0>> : l \in MakeCodeLinks}

Documents == UNION {[1..n -> Blocks] : n \in 1..MaxBlocks}

Max(S) == CHOOSE x \in S : \A y \in S : x >= y

\* elecfreaks._extract_images: every <img> of the page, in document order
extract_images(blocks) ==
    LET imgs == SelectSeq(blocks, LAMBDA b : b[1] = "img")
    IN  [k \in DOMAIN imgs |-> [src |-> imgs[k][2], kw |-> imgs[k][3] = 1]]

\* list(dict.fromkeys(links))
RECURSIVE Unique(_)
Unique(q) ==
    IF q = <<>> THEN <<>>
    ELSE LET r == Unique(SubSeq(q, 1, Len(q) - 1))
         IN  IF q[Len(q)] \in Range(r) THEN r ELSE Append(r, q[Len(q)])

\* MakeCodeImageDetector.find_makecode_links
find_makecode_links(blocks) ==
    LET found == SelectSeq(blocks, LAMBDA b : b[1] = "link")
    IN  Unique([k \in DOMAIN found |-> found[k][2]])

\* the adjacency heuristic: the nearest block with an image among the
\* LOOKBACK blocks before the link at p, 0 if there is none
NearestImage(blocks, p) ==
    LET W == {q \in 1..(p - 1) : q >= p - LOOKBACK /\ blocks[q][1] = "img"}
    IN  IF W = {} THEN 0 ELSE Max(W)

\* find_makecode_image_pairs: image src -> MakeCode URL (a later link that
\* pairs with the same src replaces the earlier one)
find_makecode_image_pairs(blocks) ==
    LET links == {p \in DOMAIN blocks :
                    blocks[p][1] = "link" /\ NearestImage(blocks, p) # 0}
        srcOf(p) == blocks[NearestImage(blocks, p)][2]
    IN  [s \in {srcOf(p) : p \in links} |->
            blocks[Max({p \in links : srcOf(p) = s})][2]]

\* MakeCodeImageDetector._is_code_image
is_code_image(image) == image.kw

\* MakeCodeImageDetector.find_code_images_in_sections: the indices, through
\* the dictionary src -> index (the last image of a src), of the srcs that
\* occur in the content of a section with a code heading
find_code_images_in_sections(c, all_images) ==
    LET image_src_to_idx(s) ==
            Max({k \in DOMAIN all_images : all_images[k].src = s})
        in_code == IF c.code_heading
                   THEN {b[2] : b \in {x \in Range(c.blocks) : x[1] = "img"}}
                   ELSE {}
    IN  {image_src_to_idx(s) :
            s \in in_code \cap {all_images[k].src : k \in DOMAIN all_images}}

\* MakeCodeImageDetector.match_images_to_links: image index -> link
match_images_to_links(images, links, c) ==
    IF links = <<>> THEN <<>>
    ELSE LET keyword_code_images == {k \in DOMAIN images : is_code_image(images[k])}
             section_code_images == find_code_images_in_sections(c, images)
             all_code_indices ==
                 Ascending(keyword_code_images \cup section_code_images)
             n == Min({Len(all_code_indices), Len(links)})
         IN  [k \in {all_code_indices[j] : j \in 1..n} |->
                links[CHOOSE j \in 1..n : all_code_indices[j] = k]]

\* a stage 3 that adds the keyword heuristic's pairs to the adjacency pairs
ImageToLinkMapMerged(c, src_to_makecode) ==
    LET images == extract_images(c.blocks)
        adj == {k \in DOMAIN images : images[k].src \in DOMAIN src_to_makecode}
        kw == match_images_to_links(images, find_makecode_links(c.blocks), c)
    IN  [k \in adj \cup DOMAIN kw |->
            IF k \in adj THEN src_to_makecode[images[k].src] ELSE kw[k]]

\* replace_makecode_screenshots, makecode_replacer.py:54-59: the pairs by
\* image index, for the images whose src the matcher has paired
image_to_link_map(c, src_to_makecode) ==
    LET images == extract_images(c.blocks)
    IN  [k \in {j \in DOMAIN images : images[j].src \in DOMAIN src_to_makecode}
            |-> src_to_makecode[images[k].src]]

InitMatch ==
    /\ InitBatch
    /\ InitFnIdle
    /\ InitPipeIdle
    /\ InitQrIdle
    /\ mk \in {[MkIdle EXCEPT !.pc = "start", !.blocks = d, !.code_heading = h] :
                 d \in Documents, h \in BOOLEAN}

\* replace_makecode_screenshots, makecode_replacer.py:37-50: the matcher is
\* called once on the content of all sections; without pairs the content is
\* returned as it is
MkFindPairs ==
    /\ mk.pc = "start"
    /\ LET m == find_makecode_image_pairs(mk.blocks)
       IN  mk' = [mk EXCEPT !.src_to_makecode = m,
                            !.pc = IF DOMAIN m = {} THEN "unchanged" ELSE "pairs"]
    /\ UNCHANGED notMatch

\* makecode_replacer.py:52-63: the map handed to capture_multiple_screenshots
MkBuildMap ==
    /\ mk.pc = "pairs"
    /\ LET m == image_to_link_map(mk, mk.src_to_makecode)
       IN  mk' = [mk EXCEPT !.image_to_link_map = m,
                            !.pc = IF DOMAIN m = {} THEN "unchanged" ELSE "capture"]
    /\ UNCHANGED notMatch

\* the detector called on the page's images, links and sections
\* (tests/test_makecode_detector.py)
MkKeyword ==
    /\ mk.pc = "start"
    /\ mk' = [mk EXCEPT
                !.matches = match_images_to_links(extract_images(mk.blocks),
                                find_makecode_links(mk.blocks), mk),
                !.pc = "matched"]
    /\ UNCHANGED notMatch

NextMatch ==
    \/ MkFindPairs
    \/ MkBuildMap
    \/ MkKeyword

SpecMatch == InitMatch /\ [][NextMatch]_vars

\* ------------------------------------------------------ ContentExtractor
\* The registry is a list of adapters; of an adapter the extractor sees
\* whether can_handle(url) is true and how its extract ends: it returns the
\* content, raises ExtractionError itself, or raises another exception
\* (ValueError from urljoin, AttributeError from a missing tag, ...).
NumAdapters == 2

Adapters ==
    [handles : BOOLEAN, outcome : {"content", "ExtractionError", "ValueError",
                                   "AttributeError"}]

Registries == UNION {[1..n -> Adapters] : n \in 1..NumAdapters}

\* ContentExtractor._find_adapter: the first adapter that can handle the URL,
\* 0 for None
find_adapter(adapters) ==
    LET able == {k \in DOMAIN adapters : adapters[k].handles}
    IN  IF able = {} THEN 0 ELSE Min(able)

\* an extract that lets the adapter's exception through as it is
AdapterResultUnwrapped(outcome) == outcome

\* ContentExtractor.extract, extractor.py:54-66: the content is returned,
\* every exception of the adapter becomes ExtractionError
AdapterResult(outcome) ==
    IF outcome = "content" THEN "content" ELSE "ExtractionError"

InitExtract ==
    /\ InitBatch
    /\ InitPipeIdle
    /\ InitQrIdle
    /\ InitMatchIdle
    /\ fn \in {[pc |-> "start", adapters |-> r, adapter |-> 0, result |-> "none"] :
                 r \in Registries}

\* extractor.py:42-45
ExFindAdapter ==
    /\ fn.pc = "start"
    /\ LET a == find_adapter(fn.adapters)
       IN  fn' = [fn EXCEPT !.adapter = a,
                            !.pc = IF a = 0 THEN "done" ELSE "parse",
                            !.result = IF a = 0 THEN "ExtractionError" ELSE @]
    /\ UNCHANGED notFn

\* extractor.py:49-51: BeautifulSoup(html, "html.parser")
ExParse ==
    /\ fn.pc = "parse"
    /\ fn' = [fn EXCEPT !.pc = "adapter"]
    /\ UNCHANGED notFn

\* extractor.py:53-66
ExAdapter ==
    /\ fn.pc = "adapter"
    /\ fn' = [fn EXCEPT !.result = AdapterResult(fn.adapters[fn.adapter].outcome),
                        !.pc = "done"]
    /\ UNCHANGED notFn

NextExtract ==
    \/ ExFindAdapter
    \/ ExParse
    \/ ExAdapter

SpecExtract == InitExtract /\ [][NextExtract]_vars

\* ------------------------------------------- BatchState and output directories
\* Batch runs with --output: the directories are numbers, OutputPath is
\* settings.output_path (OUTPUT_ROOT_DIR / OUTPUT_DIR of the configuration).
\* disk[d] is the file d/.batch_state.json; marked[d] is the history of the
\* URLs marked completed through a BatchState constructed for d.
NumDirs == 2
OutputPath == 1
Dirs == 1..NumDirs

\* BatchState.__init__, cli.py:576-579: the state file is put under the
\* directory of the settings, whatever output_dir is
state_path(output_dir) == OutputPath

InitDirs ==
    /\ InitBatch
    /\ InitPipeIdle
    /\ InitQrIdle
    /\ InitMatchIdle
    /\ fn = [pc |-> "none", output_dir |-> 0, state_path |-> 0,
             state |-> NewState, disk |-> [d \in Dirs |-> NoFile],
             marked |-> [d \in Dirs |-> {}]]

\* state = BatchState(output_dir), cli.py:776
DirConstruct ==
    /\ \E d \in Dirs :
          fn' = [fn EXCEPT !.pc = "constructed", !.output_dir = d,
                           !.state_path = state_path(d), !.state = NewState]
    /\ UNCHANGED notFn

\* state.load() of a resumed run
DirLoad ==
    /\ fn.pc = "constructed"
    /\ fn' = [fn EXCEPT !.state = LoadState(fn.state, fn.disk[fn.state_path])]
    /\ UNCHANGED notFn

\* state.mark_completed(url) with its save
DirMarkCompleted ==
    /\ fn.pc = "constructed"
    /\ \E u \in Urls :
          LET st == MarkCompleted(fn.state, u)
          IN  fn' = [fn EXCEPT !.state = st,
                               !.disk[fn.state_path] = SaveFile(st),
                               !.marked[fn.output_dir] = @ \cup {u}]
    /\ UNCHANGED notFn

NextDirs ==
    \/ DirConstruct
    \/ DirLoad
    \/ DirMarkCompleted

SpecDirs == InitDirs /\ [][NextDirs]_vars

\* ------------------------------------------------------------ translator.py
\* Text is a sequence of characters.  The alphabet holds a letter, a sentence
\* end, whitespace and the backtick ("tick"); translated letters are "A", the
\* placeholders ___CODE_BLOCK_<n>___ are the single characters of
\* PlaceholderNames.
MaxText == 5

MAX_TRANSLATION_LENGTH == 3

Chars == {"a", ".", " ", "tick"}

Texts == UNION {[1..n -> Chars] : n \in 0..MaxText}

PlaceholderNames == <<"ph0", "ph1", "ph2", "ph3">>

\* str.strip()
RECURSIVE Strip(_)
Strip(t) ==
    IF t = <<>> THEN <<>>
    ELSE IF Head(t) = " " THEN Strip(Tail(t))
    ELSE IF t[Len(t)] = " " THEN Strip(SubSeq(t, 1, Len(t) - 1))
    ELSE t

\* str.split(): the maximal runs of non-whitespace characters
RECURSIVE SplitWords(_, _)
SplitWords(t, word) ==
    IF t = <<>> THEN (IF word = <<>> THEN <<>> ELSE <<word>>)
    ELSE IF Head(t) = " "
         THEN (IF word = <<>> THEN <<>> ELSE <<word>>) \o SplitWords(Tail(t), <<>>)
         ELSE SplitWords(Tail(t), Append(word, Head(t)))

\* re.split(r"(?<=[.!?])\s+", text): cuts at each whitespace run that follows
\* a sentence end; the run itself is dropped
RECURSIVE SplitSentences(_, _, _)
SplitSentences(t, start, pos) ==
    IF pos > Len(t) THEN <<SubSeq(t, start, Len(t))>>
    ELSE IF t[pos] = " " /\ pos > 1 /\ t[pos - 1] = "."
         THEN LET stop == Min({j \in pos..(Len(t) + 1) : j > Len(t) \/ t[j] # " "})
              IN  <<SubSeq(t, start, pos - 1)>> \o SplitSentences(t, stop, stop)
         ELSE SplitSentences(t, start, pos + 1)

\* " ".join(parts)
RECURSIVE Join(_)
Join(parts) ==
    IF parts = <<>> THEN <<>>
    ELSE IF Len(parts) = 1 THEN parts[1]
    ELSE parts[1] \o <<" ">> \o Join(Tail(parts))

\* current_chunk += (" " if current_chunk else "") + piece
Extend(current_chunk, piece) ==
    (IF current_chunk # <<>> THEN current_chunk \o <<" ">> ELSE <<>>) \o piece

\* the inner loop of _chunk_text over the words of a very long sentence; the
\* result is the pair of the chunks and the current chunk
RECURSIVE ChunkWords(_, _, _, _)
ChunkWords(words, chunks, current_chunk, max_length) ==
    IF words = <<>> THEN <<chunks, current_chunk>>
    ELSE LET word == Head(words)
         IN  IF Len(current_chunk) + Len(word) + 1 <= max_length
             THEN ChunkWords(Tail(words), chunks, Extend(current_chunk, word),
                             max_length)
             ELSE ChunkWords(Tail(words),
                             IF current_chunk # <<>>
                             THEN Append(chunks, current_chunk) ELSE chunks,
                             word, max_length)

\* the loop of _chunk_text over the sentences
RECURSIVE ChunkSentences(_, _, _, _)
ChunkSentences(sentences, chunks, current_chunk, max_length) ==
    IF sentences = <<>>
    THEN (IF current_chunk # <<>> THEN Append(chunks, current_chunk) ELSE chunks)
    ELSE LET sentence == Head(sentences)
             flushed == IF current_chunk # <<>>
                        THEN Append(chunks, current_chunk) ELSE chunks
         IN  IF Len(current_chunk) + Len(sentence) + 1 <= max_length
             THEN ChunkSentences(Tail(sentences), chunks,
                                 Extend(current_chunk, sentence), max_length)
             ELSE IF Len(sentence) > max_length
                  THEN LET r == ChunkWords(SplitWords(sentence, <<>>), flushed,
                                           <<>>, max_length)
                       IN  ChunkSentences(Tail(sentences), r[1], r[2], max_length)
                  ELSE ChunkSentences(Tail(sentences), flushed, sentence,
                                      max_length)

chunk_text(text, max_length) ==
    IF Len(text) <= max_length THEN <<text>>
    ELSE ChunkSentences(SplitSentences(text, 1, 1), <<>>, <<>>, max_length)

\* the match of r"```[\s\S]*?```|`[^`]+`" that starts at position pos, as the
\* position of its last character, 0 when there is none
CodeMatchEnd(t, pos) ==
    LET fences == {k \in (pos + 3)..(Len(t) - 2) :
                      t[k] = "tick" /\ t[k + 1] = "tick" /\ t[k + 2] = "tick"}
        ticks == {j \in (pos + 1)..Len(t) : t[j] = "tick"}
    IN  IF t[pos] # "tick" THEN 0
        ELSE IF pos + 2 <= Len(t) /\ t[pos + 1] = "tick" /\ t[pos + 2] = "tick" /\ fences # {}
             THEN Min(fences) + 2
        ELSE IF ticks # {} /\ Min(ticks) > pos + 1 THEN Min(ticks)
        ELSE 0

\* re.sub(pattern, replace_code, text) of _extract_code_blocks: the text with
\* placeholders and the list of the code blocks
RECURSIVE ExtractFrom(_, _, _, _)
ExtractFrom(t, pos, out, code_blocks) ==
    IF pos > Len(t) THEN [text |-> out, code_blocks |-> code_blocks]
    ELSE LET e == CodeMatchEnd(t, pos)
         IN  IF e = 0 THEN ExtractFrom(t, pos + 1, Append(out, t[pos]), code_blocks)
             ELSE ExtractFrom(t, e + 1,
                              Append(out, PlaceholderNames[Len(code_blocks) + 1]),
                              Append(code_blocks, SubSeq(t, pos, e)))

extract_code_blocks(text) == ExtractFrom(text, 1, <<>>, <<>>)

restore_code_blocks(text, code_blocks) ==
    Flatten([k \in DOMAIN text |->
                IF \E n \in DOMAIN code_blocks : text[k] = PlaceholderNames[n]
                THEN code_blocks[CHOOSE n \in DOMAIN code_blocks :
                                     text[k] = PlaceholderNames[n]]
                ELSE <<text[k]>>])

\* the translate collaborator: it rewrites the letters and keeps punctuation,
\* whitespace and placeholders
Translate(text) == [k \in DOMAIN text |-> IF text[k] = "a" THEN "A" ELSE text[k]]

\* translate_text: what is sent to the collaborator and what comes back
translate_text(text, ok) ==
    IF Strip(text) = <<>> THEN [sent |-> {}, text |-> text, raised |-> FALSE]
    ELSE IF ok THEN [sent |-> {text}, text |-> Translate(text), raised |-> FALSE]
    ELSE [sent |-> {text}, text |-> text, raised |-> TRUE]

translate_text_preserving_code(text, ok) ==
    LET x == extract_code_blocks(text)
        stripped == Strip(x.text)
        t == translate_text(x.text, ok)
    IN  IF Strip(text) = <<>> THEN [sent |-> {}, text |-> text]
        ELSE IF stripped = <<>> \/ Head(stripped) \in Range(PlaceholderNames)
             THEN [sent |-> {}, text |-> text]
        ELSE IF t.raised THEN [sent |-> t.sent, text |-> text]
        ELSE [sent |-> t.sent, text |-> restore_code_blocks(t.text, x.code_blocks)]

\* A text node of a section, translate_content: chunk, translate each chunk,
\* join.
InitTranslate ==
    /\ InitBatch
    /\ InitPipeIdle
    /\ InitQrIdle
    /\ InitMatchIdle
    /\ \E text \in Texts :
          /\ Strip(text) # <<>>
          /\ fn = [pc |-> "text", text |-> text, chunks |-> <<>>,
                   translated_chunks |-> <<>>, sent |-> {}, result |-> <<>>]

TrChunk ==
    /\ fn.pc = "text"
    /\ fn' = [fn EXCEPT !.pc = "chunks",
                        !.chunks = chunk_text(fn.text, MAX_TRANSLATION_LENGTH)]
    /\ UNCHANGED notFn

TrTranslateChunk ==
    /\ fn.pc = "chunks"
    /\ Len(fn.translated_chunks) < Len(fn.chunks)
    /\ \E ok \in BOOLEAN :
          LET r == translate_text_preserving_code(
                       fn.chunks[Len(fn.translated_chunks) + 1], ok)
          IN  fn' = [fn EXCEPT !.translated_chunks = Append(@, r.text),
                               !.sent = @ \cup r.sent]
    /\ UNCHANGED notFn

TrReplace ==
    /\ fn.pc = "chunks"
    /\ Len(fn.translated_chunks) = Len(fn.chunks)
    /\ fn' = [fn EXCEPT !.pc = "replaced", !.result = Join(fn.translated_chunks)]
    /\ UNCHANGED notFn

NextTranslate ==
    \/ TrChunk
    \/ TrTranslateChunk
    \/ TrReplace

SpecTranslate == InitTranslate /\ [][NextTranslate]_vars

\* ------------------------------------------------------------ BatchState
\* C1: after any sequence of mark_completed and mark_failed calls, in any
\* order, completed and failed are disjoint.
C1_Disjoint == state.completed \cap state.failed = {}

\* C2 as stated: a URL that was ever recorded as completed is never in the
\* failed set of the state file, over any sequence of batch runs with or
\* without resume, interrupted or not.
C2_CompletedNeverFailed ==
    stateFile.exists => everCompleted \cap stateFile.failed = {}

\* C2: a URL that is in the completed set of the running process is never
\* handed to the pipeline, and no step moves a URL from the completed set of
\* the state file into its failed set.
C2_CompletedStays ==
    /\ [](pc = "mark" => last.url \notin state.completed)
    /\ [][\A u \in Urls :
            (stateFile.exists /\ u \in stateFile.completed /\ stateFile'.exists)
                => u \notin stateFile'.failed]_vars

\* a resumed run that skips a tutorial completed earlier and counts a failure
C2_Witness ==
    /\ pc = "summary"
    /\ resumed = "resumed"
    /\ fail_count > 0
    /\ \E u \in state.completed : u \in Range(tutorials) /\ u \notin Range(invoked)

\* C3 as stated: a batch run with resume, over an unchanged index whose
\* tutorials were all completed before, invokes no pipeline.
C3_SecondRunIdle ==
    ~(pc = "item" /\ i = 1 /\ args.resume /\ Range(tutorials) \subseteq everCompleted)

\* C3: a resumed run that loaded a state file in which every tutorial of the
\* index is completed ends without a pipeline invocation and leaves the
\* completed set, in memory and in the file, as it was.
C3_ResumeIdempotent ==
    [][(/\ pc = "fetch_index"
        /\ resumed = "resumed"
        /\ ~args.list_only
        /\ tutorials' # <<>>
        /\ Range(tutorials') \subseteq state.completed)
       => (/\ pc' = "exited"
           /\ exit_code' = 0
           /\ pending' = <<>>
           /\ invoked' = <<>>
           /\ state'.completed = state.completed
           /\ stateFile'.exists
           /\ stateFile'.completed = stateFile.completed)]_vars

\* a resumed run has ended with all its tutorials already completed
C3_Witness ==
    /\ pc = "exited"
    /\ resumed = "resumed"
    /\ ~args.list_only
    /\ tutorials # <<>>
    /\ invoked = <<>>
    /\ Range(tutorials) \subseteq state.completed
    /\ stateFile.exists



\* ------------------------------------------------------------ QR injection
\* C4: for any markdown with standard links and autolinks in any arrangement,
\* after process_markdown_links every original link substring is still in
\* the text, unmodified, and the reference inserted for a link begins right
\* after the end of that link.
C4_InjectionCorrect ==
    qr.pc = "done" =>
        \A k \in DOMAIN qr.all_matches :
            LET m == qr.all_matches[k]
                link == SubSeq(qr.source, m.start, m.end)
                ref == qr_markdown(get_qr_filename(m.url, k))
                Contains(t, sub) ==
                    \E p \in 0..(Len(t) - Len(sub)) :
                        SubSeq(t, p + 1, p + Len(sub)) = sub
            IN  /\ Contains(qr.markdown, link)
                /\ UrlValid(m.url) => Contains(qr.markdown, link \o ref)

\* ------------------------------------------------------------ the stages
\* C5: when a recoverable stage (replace, download, enhance, translate)
\* raises, the content record handed to the next stage is the one the stage
\* was given, and the item goes on.
C5_ContentCarriedForward ==
    \A k \in DOMAIN pstate.log :
        (pstate.log[k].raised /\ pstate.log[k].stage \in RecoverableStages) =>
            /\ pstate.log[k].after = pstate.log[k].before
            /\ pstate.failed # pstate.log[k].stage

\* C6: when a critical stage (fetch, extract, generate, save) raises, no later
\* stage runs and no document is written for the item; in a batch the URL is
\* added to failed, saved, and the loop goes on to the next item; a single
\* generate exits with a non-zero status.
C6_CriticalStageEndsItem ==
    /\ [](\A k \in DOMAIN last.stages :
            (last.stages[k][2] /\ last.stages[k][1] \in CriticalStages) =>
                /\ k = Len(last.stages)
                /\ last.failed = last.stages[k][1]
                /\ ~last.success
                /\ ~last.written
                /\ last.url \notin saved
                /\ args.cmd = "generate" => pc = "exited" /\ exit_code # 0)
    /\ [][(pc = "mark" /\ ~last.success /\ pc' # "idle") =>
            /\ last.url \in state'.failed
            /\ stateFile'.exists /\ last.url \in stateFile'.failed
            /\ fail_count' = fail_count + 1
            /\ pc' = (IF i < Len(pending) THEN "sleep" ELSE "summary")]_vars
    /\ [][(pc = "sleep" /\ pc' # "idle") =>
            pc' = "item" /\ i' = i + 1 /\ pending' = pending]_vars

\* a batch is at its second item after a critical stage failed in the first
C6_Witness ==
    /\ pc = "item"
    /\ i = 2
    /\ pending[1] \in state.failed
    /\ pending[1] \notin saved

\* ------------------------------------------------------------ the batch run
\* C7: a batch run never stops early on an item's failure: the pipeline is
\* invoked exactly once for each pending item, in the order of the pending
\* list; at the end every failing item's URL is in failed and the successes
\* and failures add up to the number of pending items.
C7_NeverStopsEarly ==
    /\ pc \in {"item", "mark", "sleep", "summary"} =>
          /\ Len(invoked) = (IF pc = "item" THEN i - 1 ELSE i)
          /\ invoked = SubSeq(pending, 1, Len(invoked))
    /\ (pc = "summary" \/ (pc = "exited" /\ args.cmd = "batch" /\ pending # <<>>)) =>
          /\ invoked = pending
          /\ \A j, k \in DOMAIN invoked : invoked[j] = invoked[k] => j = k
          /\ success_count + fail_count = Len(pending)
          /\ success_count = Cardinality(saved)
          /\ fail_count = Cardinality(Range(invoked) \ saved)
          /\ (Range(invoked) \ saved) \subseteq state.failed
          /\ fail_count > 0 =>
                stateFile.exists /\ (Range(invoked) \ saved) \subseteq stateFile.failed

\* a run has ended whose first item failed and which went on to a success
C7_Witness ==
    /\ pc = "exited"
    /\ args.cmd = "batch"
    /\ Len(pending) >= 2
    /\ pending[1] \notin saved
    /\ success_count >= 1
    /\ fail_count >= 1

\* C8: the state is saved after every item before the next one starts: at
\* any point of the loop the outcomes obtained so far differ from the sets in
\* the state file by at most the item in flight, and a resumed run that loads
\* the file skips every tutorial the file records as completed.
C8_PersistedAfterEveryItem ==
    /\ [](pc \in {"item", "mark", "sleep", "summary"} =>
            /\ stateFile.exists
            /\ LET unsaved == (saved \ stateFile.completed) \cup
                              ((Range(invoked) \ saved) \ stateFile.failed)
               IN  IF pc = "mark" THEN unsaved \subseteq {last.url}
                   ELSE unsaved = {})
    /\ [][(pc = "fetch_index" /\ resumed = "resumed" /\ pc' \in {"item", "exited"}
             /\ tutorials' # <<>> /\ ~args.list_only)
          => pending' = SelectSeq(tutorials',
                                  LAMBDA u : u \notin stateFile.completed)]_vars

\* a resumed run is at its first item, having skipped a completed tutorial
C8_Witness ==
    /\ pc = "item"
    /\ resumed = "resumed"
    /\ stateFile.exists
    /\ \E u \in Range(tutorials) :
          u \in stateFile.completed /\ u \notin Range(pending)

C10_StaleStateDiscarded ==
    resumed = "discarded" =>
       /\ pc = "fetch_index" =>
             state.completed = {} /\ state.failed = {} /\ ~stateFile.exists
       /\ (pc \in {"item", "mark", "sleep", "summary", "exited"}
             /\ tutorials # <<>> /\ ~args.list_only) => pending = tutorials
       /\ (pc = "item" /\ i = 1) =>
             /\ state.completed = {} /\ state.failed = {}
             /\ stateFile = SaveFile([NewState EXCEPT !.index_url = args.index])

\* a run that discarded stale state is about to process a tutorial that an
\* earlier run had completed
C10_Witness ==
    /\ pc = "item"
    /\ i = 1
    /\ resumed = "discarded"
    /\ pending[1] \in everCompleted


\* C11: in a resumed run whose loaded state matches the index, the pending
\* list is the extracted list without the URLs of the loaded completed set, in
\* the extracted order; the pipeline is invoked for the pending URLs only, one
\* after the other, and by the summary for every one of them
C11_SkipsCompletedOnly ==
    /\ [](resumed = "resumed" /\ pc \in {"item", "mark", "sleep", "summary"} =>
            /\ Len(invoked) <= Len(pending)
            /\ invoked = SubSeq(pending, 1, Len(invoked))
            /\ Range(pending) \subseteq Range(tutorials)
            /\ pc \in {"mark", "sleep"} => Len(invoked) = i
            /\ pc = "summary" => invoked = pending)
    /\ [][resumed = "resumed" /\ pc = "fetch_index" /\ pc' \in {"item", "exited"}
          /\ tutorials' # <<>> /\ ~args.list_only =>
            /\ pending' = SelectSeq(tutorials',
                                    LAMBDA u : u \notin state.completed)
            /\ Range(invoked') \cap state.completed = {}
            /\ pc' = "exited" => Range(tutorials') \subseteq state.completed]_vars

\* a resumed run that skipped a completed tutorial and processed the others
C11_Witness ==
    /\ resumed = "resumed" /\ pc = "summary"
    /\ Len(pending) >= 1 /\ Len(pending) < Len(tutorials)
    /\ invoked = pending
    /\ \E u \in Range(tutorials) : u \in state.completed /\ u \notin Range(invoked)


\* C12: the index lists all the tutorials and one of them, B, fails in a
\* critical stage while the others succeed: the first run reaches its summary
\* with failed = {B}, the others completed, 2 successes and 1 failure counted
\* and the state file holding just that, and it keeps the file.  A resumed run
\* that loads this state has B alone pending; when B succeeds it reaches its
\* summary with every tutorial completed and none failed, and its last step
\* deletes the state file
C12_FailThenResume ==
    /\ [](\A b \in Urls :
            pc = "summary" /\ resumed \in {"fresh", "none"}
            /\ Range(invoked) = Urls /\ saved = Urls \ {b}
            /\ success_count = Len(invoked) - 1 =>
              /\ state = [index_url |-> UnchangedIndex,
                          completed |-> Urls \ {b}, failed |-> {b}]
              /\ stateFile = SaveFile(state)
              /\ fail_count = 1)
    /\ [][\A b \in Urls :
            pc = "summary" /\ resumed \in {"fresh", "none"}
            /\ state.completed = Urls \ {b} /\ state.failed = {b}
            /\ pc' = "exited" =>
              stateFile' = SaveFile(state) /\ exit_code' = 0]_vars
    /\ [][\A b \in Urls :
            pc = "fetch_index" /\ resumed = "resumed"
            /\ state.completed = Urls \ {b} /\ state.failed = {b}
            /\ pc' = "item" =>
              pending' = <<b>> /\ tutorials' = Ascending(Urls)]_vars
    /\ [](\A b \in Urls :
            pc = "summary" /\ resumed = "resumed" /\ pending = <<b>>
            /\ success_count = 1 /\ Urls \ {b} \subseteq state.completed =>
              /\ invoked = <<b>>
              /\ state.completed = Urls /\ state.failed = {}
              /\ stateFile = SaveFile(state))
    /\ [][\A b \in Urls :
            pc = "summary" /\ resumed = "resumed" /\ pending = <<b>>
            /\ success_count = 1 /\ pc' = "exited" =>
              ~stateFile'.exists /\ exit_code' = 0]_vars

\* the resumed run has processed the middle tutorial alone, with success, and
\* has deleted the state file
C12_Witness ==
    /\ pc = "exited" /\ resumed = "resumed"
    /\ tutorials = Ascending(Urls)
    /\ invoked = <<2>> /\ saved = {2} /\ success_count = 1 /\ fail_count = 0
    /\ ~stateFile.exists


\* --------------------------------------------------------- QR artifacts
\* C13: the relative path of a QR artifact is a function of the URL alone:
\* whatever the position of the link, in one document or over several calls
\* on the same guide, the path recorded for a URL is the one file on disk made
\* for that URL, and no second file is made for it
C13_PathFunctionOfUrl ==
    /\ \A f, g \in qr.files : f[2] = g[2] => f = g
    /\ \A k \in DOMAIN qr.qr_codes :
          /\ qr.qr_codes[k].path \in qr.files
          /\ qr.qr_codes[k].path[2] = UrlHash(qr.qr_codes[k].url)

\* C14: when the document holds the same valid URL three times (and no other
\* link), after process_markdown_links there is exactly one QR file on disk
\* and each of the three injected references names a file that exists
C14_ThreeReferencesOneFile ==
    (/\ qr.pc = "done"
     /\ Len(qr.all_matches) = 3
     /\ \A k \in 1..3 : /\ qr.all_matches[k].url = qr.all_matches[1].url
                        /\ UrlValid(qr.all_matches[k].url)) =>
        /\ Cardinality(qr.files) = 1
        /\ Len(qr.qr_codes) = 3
        /\ \A p \in DOMAIN qr.markdown :
              qr.markdown[p][1] = "img" =>
                  <<qr.markdown[p][2], qr.markdown[p][3]>> \in qr.files


\* ------------------------------------------------------ MakeCode matchers
\* C15: whenever the adjacency heuristic finds pairs for a page, the map of
\* image index to link that stage 3 hands to the capture is exactly the
\* adjacency result: an image is in it iff the adjacency heuristic paired its
\* src, with that link; nothing of the keyword heuristic is in it
C15_AdjacencyWins ==
    (mk.pc \in {"pairs", "capture"} \/
     (mk.pc = "unchanged" /\ DOMAIN mk.src_to_makecode # {})) =>
        LET images == extract_images(mk.blocks)
            adj == find_makecode_image_pairs(mk.blocks)
        IN  /\ mk.src_to_makecode = adj
            /\ mk.pc # "pairs" =>
                /\ DOMAIN mk.image_to_link_map =
                      {k \in DOMAIN images : images[k].src \in DOMAIN adj}
                /\ \A k \in DOMAIN mk.image_to_link_map :
                      mk.image_to_link_map[k] = adj[images[k].src]

\* stage 3 has built its map from the adjacency pairs on a page for which the
\* keyword heuristic pairs another image as well
C15_Witness ==
    /\ mk.pc = "capture"
    /\ LET kw == match_images_to_links(extract_images(mk.blocks),
                                       find_makecode_links(mk.blocks), mk)
       IN  /\ DOMAIN kw \ DOMAIN mk.image_to_link_map # {}
           /\ DOMAIN mk.image_to_link_map # {}

\* C16: when the adjacency heuristic finds no pair for a page that holds
\* MakeCode links, stage 3 uses the pairs of the keyword heuristic
C16_KeywordFallback ==
    (/\ mk.pc \in {"unchanged", "capture"}
     /\ DOMAIN find_makecode_image_pairs(mk.blocks) = {}
     /\ find_makecode_links(mk.blocks) # <<>>) =>
        mk.image_to_link_map =
            match_images_to_links(extract_images(mk.blocks),
                                  find_makecode_links(mk.blocks), mk)

\* C17: match_images_to_links pairs the Nth code image (keyword in alt, title
\* or src, or located in a section with a code heading), in document order
\* and each once, with the Nth link, and returns exactly
\* min(code images, links) pairs
C17_KeywordPairsInOrder ==
    mk.pc = "matched" =>
        LET images == extract_images(mk.blocks)
            links == find_makecode_links(mk.blocks)
            code == Ascending({k \in DOMAIN images :
                                 images[k].kw \/ mk.code_heading})
            n == Min({Len(code), Len(links)})
        IN  /\ Cardinality(DOMAIN mk.matches) = n
            /\ \A j \in 1..n : /\ code[j] \in DOMAIN mk.matches
                               /\ mk.matches[code[j]] = links[j]


\* ------------------------------------------------------ image records
\* C18: in every state of the pipeline, an image whose enhanced_path is set
\* has a local_path, and that local_path names a file that is on disk
C18_EnhancedHasLocalFile ==
    \A k \in DOMAIN pstate.content.images :
        pstate.content.images[k].enhanced_path # NoPath =>
            /\ pstate.content.images[k].local_path # NoPath
            /\ pstate.content.images[k].local_path \in pstate.files


\* C19: whenever the download stage has set no local_path (it produced no
\* local asset), the enhance stage does not run (enhance_all_images is not
\* called) and no image has an enhanced_path, in the single-item and in the
\* batch pipeline
C19_EnhanceSkippedWithoutAssets ==
    \A j \in DOMAIN pstate.log :
        (/\ pstate.log[j].stage = "download"
         /\ \A k \in DOMAIN pstate.log[j].after.images :
               pstate.log[j].after.images[k].local_path =
                   pstate.log[j].before.images[k].local_path) =>
            /\ \A m \in DOMAIN pstate.log : pstate.log[m].stage # "enhance"
            /\ \A k \in DOMAIN pstate.content.images :
                  pstate.content.images[k].enhanced_path = NoPath


\* ------------------------------------------------------ the stage order
\* C20: in the single-item and in the batch pipeline the stages that ran did
\* so in the order fetch, extract, replace, download (or the use of existing
\* images), enhance, translate, generate (the QR codes are part of its
\* output), the renaming of the guide directory, save: each at most once, the
\* next one only after the one before has returned, and save only after a
\* generate that did not raise, whose guide is the document saved
C20_CanonicalOrder ==
    LET log == pstate.log
        Rank(stage) ==
            CASE stage = "fetch" -> 1 [] stage = "extract" -> 2
              [] stage = "replace" -> 3 [] stage = "download" -> 4
              [] stage = "existing" -> 4 [] stage = "enhance" -> 5
              [] stage = "translate" -> 6 [] stage = "generate" -> 7
              [] stage = "rename" -> 8 [] stage = "save" -> 9
              [] OTHER -> 0
    IN  /\ \A j \in DOMAIN log : Rank(log[j].stage) # 0
        /\ \A j \in DOMAIN log :
              j > 1 => /\ Rank(log[j - 1].stage) < Rank(log[j].stage)
                       /\ log[j].before = log[j - 1].after
        /\ log # <<>> => log[1].stage = "fetch"
        /\ \A j \in DOMAIN log :
              /\ log[j].stage # "fetch" => \E m \in 1..(j - 1) :
                    log[m].stage = "fetch" /\ ~log[m].raised
              /\ log[j].stage \notin {"fetch", "extract"} =>
                    \E m \in 1..(j - 1) :
                        log[m].stage = "extract" /\ ~log[m].raised
              /\ log[j].stage = "save" => \E m \in 1..(j - 1) :
                    log[m].stage = "generate" /\ ~log[m].raised
        /\ pstate.doc.written =>
              /\ pstate.guide.written /\ pstate.doc = pstate.guide
              /\ pstate.doc.qrcodes = ~job.flags.no_qrcode
              /\ log[Len(log)].stage = "save"

\* an item that ran every stage, in either pipeline, and was saved
C20_Witness ==
    /\ pstate.next = "done" /\ pstate.failed = "none" /\ pstate.doc.written
    /\ StagesRun(pstate) = <<"fetch", "extract", "replace", "download",
                             "enhance", "translate", "generate", "rename",
                             "save">>


\* ------------------------------------------------------ list-only mode
\* C29: a batch run in list-only mode hands no URL to the pipeline and no
\* step of it, from its start on, creates, changes or deletes the state file,
\* whatever the other flags and the index URL
C29_ListOnlyLeavesState ==
    [][(pc = "idle" /\ pc' = "fetch_index" /\ args'.list_only) \/
       (pc = "fetch_index" /\ args.list_only /\ pc' = "exited") =>
          /\ stateFile' = stateFile
          /\ invoked' = <<>>]_vars


\* ------------------------------------------------------ ContentExtractor
\* C21: extract uses the first adapter of the registry, in its order, whose
\* can_handle is true; it ends with the content or with ExtractionError and
\* with nothing else: ExtractionError exactly when no adapter can handle the
\* URL or the adapter used raised, whatever it raised
C21_OnlyExtractionError ==
    fn.pc = "done" =>
        LET able == {k \in DOMAIN fn.adapters : fn.adapters[k].handles}
        IN  /\ fn.result \in {"content", "ExtractionError"}
            /\ able = {} => fn.adapter = 0 /\ fn.result = "ExtractionError"
            /\ able # {} =>
                /\ fn.adapter \in able
                /\ \A k \in able : fn.adapter <= k
                /\ fn.result = "content" <=>
                      fn.adapters[fn.adapter].outcome = "content"

\* the second adapter of the registry was the first to handle the URL, it
\* raised a ValueError and the caller got ExtractionError
C21_Witness ==
    /\ fn.pc = "done" /\ fn.adapter = 2
    /\ ~fn.adapters[1].handles
    /\ fn.adapters[2].outcome = "ValueError"
    /\ fn.result = "ExtractionError"


\* ------------------------------------------------------ invalid URLs
\* C23: in a document that holds a link whose URL has no scheme or no host,
\* process_markdown_links does not raise; for that link no file is written
\* and no reference is injected, and every other link has its reference right
\* after it
C23_InvalidLinkSkipped ==
    /\ qr.pc # "raised"
    /\ (qr.pc = "done" /\ \E j \in DOMAIN qr.all_matches :
                              ~UrlValid(qr.all_matches[j].url)) =>
          \A k \in DOMAIN qr.all_matches :
              LET m == qr.all_matches[k]
                  link == SubSeq(qr.source, m.start, m.end)
                  ref == qr_markdown(get_qr_filename(m.url, k))
                  Contains(t, sub) ==
                      \E p \in 0..(Len(t) - Len(sub)) :
                          SubSeq(t, p + 1, p + Len(sub)) = sub
              IN  IF UrlValid(m.url)
                  THEN Contains(qr.markdown, link \o ref)
                  ELSE /\ \A n \in DOMAIN qr.qr_codes : qr.qr_codes[n].index # k
                       /\ get_qr_filename(m.url, k) \notin qr.files
                       /\ ~Contains(qr.markdown, ref)


\* ------------------------------------------- BatchState and output directories
\* C24: a BatchState constructed for an output directory keeps its file at
\* <output directory>/.batch_state.json, and a URL counts as completed for a
\* run only if it was marked completed by a run on the same output directory
C24_StatePerOutputDir ==
    fn.pc = "constructed" =>
        /\ fn.state_path = fn.output_dir
        /\ \A u \in Urls :
              IsCompleted(fn.state, u) => u \in fn.marked[fn.output_dir]

\* ------------------------------------------------------------- translation
\* C26: every chunk of _chunk_text is at most max_length long, and the chunks
\* in order hold exactly the words of the text in their order
C26_ChunksBoundedAndComplete ==
    fn.pc # "text" =>
        /\ \A k \in DOMAIN fn.chunks : Len(fn.chunks[k]) <= MAX_TRANSLATION_LENGTH
        /\ Flatten([k \in DOMAIN fn.chunks |-> SplitWords(fn.chunks[k], <<>>)])
               = SplitWords(fn.text, <<>>)

\* C22: no text sent to the translate collaborator holds a code span or a
\* fenced block of the text, and the reassembled text holds the code spans
\* and fenced blocks of the text, verbatim and in their order
C22_CodeVerbatim ==
    LET code_blocks == extract_code_blocks(fn.text).code_blocks
        Contains(t, sub) ==
            \E p \in 0..(Len(t) - Len(sub)) : SubSeq(t, p + 1, p + Len(sub)) = sub
    IN  /\ \A s \in fn.sent :
              \A n \in DOMAIN code_blocks : ~Contains(s, code_blocks[n])
        /\ fn.pc = "replaced" =>
               extract_code_blocks(fn.result).code_blocks = code_blocks

\* ------------------------------------------------- images of the pipeline
\* C27: an image replaced with a localized screenshot keeps the screenshot
\* as its local_path through the download and enhance stages and gets no
\* enhanced_path, so the image map of the document refers to the screenshot
C27_ScreenshotKept ==
    \A k \in DOMAIN pstate.content.images :
        pstate.content.images[k].replaced =>
            /\ pstate.content.images[k].local_path = <<"makecode", k, 0>>
            /\ build_image_map(pstate.content)[k] = <<"makecode", k, 0>>

\* C28: after the download stage no two images of the item have the same
\* local_path
C28_OwnLocalPath ==
    \A j \in DOMAIN pstate.log :
        pstate.log[j].stage = "download" =>
            \A a, b \in DOMAIN pstate.log[j].after.images :
                (/\ a # b
                 /\ pstate.log[j].after.images[a].local_path # NoPath
                 /\ pstate.log[j].after.images[b].local_path # NoPath) =>
                    pstate.log[j].after.images[a].local_path
                        # pstate.log[j].after.images[b].local_path

\* C25: whatever the order in which the workers of the enhance stage
\* complete, the stage leaves the same content, and every image it enhanced
\* has the enhanced_path made from its own local_path
C25_OrderIndependent ==
    [][\A oc \in Outcomes("enhance") :
          (/\ pstate.next = "enhance"
           /\ pstate' = DoEnhance(pstate, job.flags, oc)) =>
              /\ \A z \in Perms(1..NumImages) :
                    DoEnhance(pstate, job.flags, [oc EXCEPT !.order = z]).content
                        = pstate'.content
              /\ \A k \in DOMAIN pstate'.content.images :
                    pstate'.content.images[k].enhanced_path
                        \in {pstate.content.images[k].enhanced_path,
                             EnhancedName(pstate.content.images[k].local_path)}
      ]_vars

\* ------------------------------------------- the two per-item pipelines
\* C30: _generate_single and _generate are the same pipeline: from the same
\* pipeline state, with the same flags and the same collaborator outcomes,
\* the step one of them takes (the stage run, its result, the stage chosen
\* next, failure, the document) is the step the other takes
C30_SamePipeline ==
    [][\A oc \in Outcomes(pstate.next) :
          pstate' = StageStep(job.mode, pstate, job.page, job.flags, oc) =>
              \A mode \in {"batch", "single"} :
                  StageStep(mode, pstate, job.page, job.flags, oc) = pstate'
      ]_vars

====
